---- MODULE Spec2Model ----
(***************************************************************************)
(* Model of src/src/python-ftp.py: the command-line driver (__main__) and  *)
(* fetch_bom_forecast, one FTP session that keeps the first 100 lines of a *)
(* remote file, prints them and returns them newline-joined, or reports    *)
(* the failure on standard error and exits the process with status 1.      *)
(*                                                                         *)
(* A line of text is a sequence of character codes (naturals >= 1); the    *)
(* newline character is the code NL = 0, which no received line holds      *)
(* (retrlines strips the line terminator before it calls the callback).    *)
(***************************************************************************)
EXTENDS Integers, Sequences, FiniteSets, TLC

VARIABLES
    argvLen,     \* len(sys.argv): script name plus the command-line arguments
    remote,      \* the remote file: the sequence of its lines (never changes)
    caller,      \* "main": the __main__ driver; "lib": a caller that re-invokes
    calls,       \* number of invocations of fetch_bom_forecast started
    pc,          \* position of the (single) thread of control
    lines,       \* the local list `lines` of the running invocation
    delivered,   \* lines retrlines has handed to the callback in this invocation
    sock,        \* the control connection: "none", "open" or "closed"
    entered,     \* TRUE while control is inside the `with FTP(...)` block
    cmds,        \* session commands of this invocation the server has accepted
    failedStep,  \* the step that raised in this invocation, or "none"
    err,         \* the pending exception's description (str(e)), or ""
    stdout,      \* what print() wrote to standard output, one entry per call
    stderr,      \* what print(..., file=sys.stderr) wrote, one entry per call
    returned,    \* values fetch_bom_forecast returned, one per completed call
    forecast,    \* __main__'s variable `forecast`
    exitStatus   \* -1 while the process runs, then its exit status

vars == <<argvLen, remote, caller, calls, pc, lines, delivered, sock, entered,
          cmds, failedStep, err, stdout, stderr, returned, forecast, exitStatus>>

----------------------------------------------------------------------------
(* Bounds of the model *)

MaxLines == 102
MaxArgv == 2
MaxCalls == 2

(* The line cap of handle_line *)
LineCap == 100

NL == 0

Min(a, b) == IF a < b THEN a ELSE b

(* The contents of the remote files the model draws from: pattern 1 has    *)
(* pairwise distinct lines, pattern 2 mixes empty and two-character lines, *)
(* pattern 3 repeats one line.                                             *)
Patterns == {1, 2, 3}

LineOf(p, i) ==
    CASE p = 1 -> <<i>>
      [] p = 2 -> IF i % 2 = 0 THEN <<>> ELSE <<i, i + 1>>
      [] OTHER -> <<1>>

RemoteFile(p, n) == [i \in 1..n |-> LineOf(p, i)]

----------------------------------------------------------------------------
(* Pure functions *)

(* "\n".join(ls) *)
RECURSIVE Join(_)
Join(ls) ==
    IF ls = <<>> THEN <<>>
    ELSE IF Len(ls) = 1 THEN ls[1]
    ELSE ls[1] \o <<NL>> \o Join(Tail(ls))

(* Body of the callback handle_line: the list after one delivered line *)
HandleLineOffByOne(buf, line) ==
    IF Len(buf) <= LineCap THEN Append(buf, line) ELSE buf

HandleLineKeepsLast(buf, line) ==
    IF Len(buf) < LineCap THEN Append(buf, line) ELSE Append(Tail(buf), line)

handle_line(buf, line) ==
    IF Len(buf) < LineCap THEN Append(buf, line) ELSE buf

(* len(sys.argv) < 2 *)
ArgMissingNever(n) == n < 1

ArgMissing(n) == n < 2

(* lines = [] at the start of every invocation *)
StaleLines == lines

NewLines == <<>>

(* Entries of the output streams: one record per print() call *)
Notice == [tag |-> "FTP connection closed.", body |-> <<>>]
Header == [tag |-> "Fetched forecast data:", body |-> <<>>]
Text(t) == [tag |-> "text", body |-> t]
Usage == [tag |-> "Usage: python python-ftp.py <ftp_file>", detail |-> ""]
Failure(e) == [tag |-> "FTP connection or operation failed: ", detail |-> e]

(* Descriptions of what can go wrong in each step *)
ConnectErrors == {"unreachable", "timed out", "bad welcome"}
BodySteps == {"login", "cwd", "retr"}
WithSteps == BodySteps \cup {"quit"}

SessionOrder == <<"CONNECT", "LOGIN", "CWD", "RETR", "QUIT">>

----------------------------------------------------------------------------
(* Initial states *)

InitCommon ==
    /\ \E p \in Patterns, n \in 0..MaxLines : remote = RemoteFile(p, n)
    /\ calls = 0
    /\ lines = <<>>
    /\ delivered = 0
    /\ sock = "none"
    /\ entered = FALSE
    /\ cmds = <<>>
    /\ failedStep = "none"
    /\ err = ""
    /\ stdout = <<>>
    /\ stderr = <<>>
    /\ returned = <<>>
    /\ forecast = <<>>
    /\ exitStatus = -1

(* The program started from the command line *)
Init ==
    /\ InitCommon
    /\ argvLen \in 1..MaxArgv
    /\ caller = "main"
    /\ pc = "main"

(* fetch_bom_forecast imported and called repeatedly by another module *)
InitRepeat ==
    /\ InitCommon
    /\ argvLen = 2
    /\ caller = "lib"
    /\ pc = "caller"

----------------------------------------------------------------------------
(* fetch_bom_forecast *)

(* Entry of fetch_bom_forecast: its locals are created (lines 5-10) *)
FetchEnter ==
    /\ calls' = calls + 1
    /\ lines' = NewLines
    /\ delivered' = 0
    /\ sock' = "none"
    /\ entered' = FALSE
    /\ cmds' = <<>>
    /\ failedStep' = "none"
    /\ err' = ""
    /\ pc' = "connect"

(* FTP(ftp_host, timeout=ftp_timeout) connects and reads the welcome; the  *)
(* `with` block is entered                                                  *)
Connect ==
    /\ pc = "connect"
    /\ sock' = "open"
    /\ entered' = TRUE
    /\ cmds' = Append(cmds, "CONNECT")
    /\ pc' = "login"
    /\ UNCHANGED <<argvLen, remote, caller, calls, lines, delivered, failedStep,
                   err, stdout, stderr, returned, forecast, exitStatus>>

(* The constructor raises: the `with` block is never entered, so nothing   *)
(* closes a socket that was already created when the welcome was rejected   *)
ConnectFail(e) ==
    /\ pc = "connect"
    /\ sock' = IF e = "bad welcome" THEN "open" ELSE "none"
    /\ failedStep' = "connect"
    /\ err' = e
    /\ pc' = "except"
    /\ UNCHANGED <<argvLen, remote, caller, calls, lines, delivered, entered,
                   cmds, stdout, stderr, returned, forecast, exitStatus>>

(* ftp.login() *)
Login ==
    /\ pc = "login"
    /\ cmds' = Append(cmds, "LOGIN")
    /\ pc' = "cwd"
    /\ UNCHANGED <<argvLen, remote, caller, calls, lines, delivered, sock,
                   entered, failedStep, err, stdout, stderr, returned, forecast,
                   exitStatus>>

(* ftp.cwd(ftp_dir) *)
Cwd ==
    /\ pc = "cwd"
    /\ cmds' = Append(cmds, "CWD")
    /\ pc' = "retr"
    /\ UNCHANGED <<argvLen, remote, caller, calls, lines, delivered, sock,
                   entered, failedStep, err, stdout, stderr, returned, forecast,
                   exitStatus>>

(* ftp.retrlines("RETR <file>", callback=handle_line): the server accepts  *)
(* the request and the data transfer starts                                 *)
RetrStart ==
    /\ pc = "retr"
    /\ cmds' = Append(cmds, "RETR")
    /\ pc' = "xfer"
    /\ UNCHANGED <<argvLen, remote, caller, calls, lines, delivered, sock,
                   entered, failedStep, err, stdout, stderr, returned, forecast,
                   exitStatus>>

(* retrlines reads the next line and calls handle_line with it *)
HandleLine ==
    /\ pc = "xfer"
    /\ delivered < Len(remote)
    /\ lines' = handle_line(lines, remote[delivered + 1])
    /\ delivered' = delivered + 1
    /\ UNCHANGED <<argvLen, remote, caller, calls, pc, sock, entered, cmds,
                   failedStep, err, stdout, stderr, returned, forecast,
                   exitStatus>>

(* retrlines reaches the end of the file and returns *)
RetrEnd ==
    /\ pc = "xfer"
    /\ delivered = Len(remote)
    /\ pc' = "quit"
    /\ UNCHANGED <<argvLen, remote, caller, calls, lines, delivered, sock,
                   entered, cmds, failedStep, err, stdout, stderr, returned,
                   forecast, exitStatus>>

(* ftp.quit(): QUIT is answered and the connection is closed *)
QuitSkipped ==
    /\ pc = "quit"
    /\ pc' = "print_notice"
    /\ UNCHANGED <<argvLen, remote, caller, calls, lines, delivered, sock,
                   entered, cmds, failedStep, err, stdout, stderr, returned,
                   forecast, exitStatus>>

Quit ==
    /\ pc = "quit"
    /\ sock' = "closed"
    /\ cmds' = Append(cmds, "QUIT")
    /\ pc' = "print_notice"
    /\ UNCHANGED <<argvLen, remote, caller, calls, lines, delivered, entered,
                   failedStep, err, stdout, stderr, returned, forecast,
                   exitStatus>>

(* A step inside the `with` block raises: login, cwd, or retrlines before  *)
(* or during the data transfer (or reading its final reply)                 *)
StepFail(step) ==
    /\ \/ step = "login" /\ pc = "login"
       \/ step = "cwd" /\ pc = "cwd"
       \/ step = "retr" /\ pc \in {"retr", "xfer"}
    /\ failedStep' = step
    /\ err' = step
    /\ pc' = "unwind"
    /\ UNCHANGED <<argvLen, remote, caller, calls, lines, delivered, sock,
                   entered, cmds, stdout, stderr, returned, forecast, exitStatus>>

(* ftp.quit() raises: the connection is not closed by quit() itself *)
QuitFailIgnored ==
    /\ pc = "quit"
    /\ failedStep' = "quit"
    /\ err' = "quit"
    /\ pc' = "print_notice"
    /\ UNCHANGED <<argvLen, remote, caller, calls, lines, delivered, sock,
                   entered, cmds, stdout, stderr, returned, forecast, exitStatus>>

QuitFail ==
    /\ pc = "quit"
    /\ failedStep' = "quit"
    /\ err' = "quit"
    /\ pc' = "unwind"
    /\ UNCHANGED <<argvLen, remote, caller, calls, lines, delivered, sock,
                   entered, cmds, stdout, stderr, returned, forecast, exitStatus>>

(* print("FTP connection closed.") *)
PrintNotice ==
    /\ pc = "print_notice"
    /\ stdout' = Append(stdout, Notice)
    /\ pc' = "print_header"
    /\ UNCHANGED <<argvLen, remote, caller, calls, lines, delivered, sock,
                   entered, cmds, failedStep, err, stderr, returned, forecast,
                   exitStatus>>

(* print("Fetched forecast data:") *)
PrintHeader ==
    /\ pc = "print_header"
    /\ stdout' = Append(stdout, Header)
    /\ pc' = "print_text"
    /\ UNCHANGED <<argvLen, remote, caller, calls, lines, delivered, sock,
                   entered, cmds, failedStep, err, stderr, returned, forecast,
                   exitStatus>>

(* print("\n".join(lines)) *)
PrintText ==
    /\ pc = "print_text"
    /\ stdout' = Append(stdout, Text(Join(lines)))
    /\ pc' = "with_exit"
    /\ UNCHANGED <<argvLen, remote, caller, calls, lines, delivered, sock,
                   entered, cmds, failedStep, err, stderr, returned, forecast,
                   exitStatus>>

(* The `with` block is left normally: __exit__ closes the connection only  *)
(* if it is still open                                                      *)
WithExit ==
    /\ pc = "with_exit"
    /\ entered' = FALSE
    /\ sock' = IF sock = "open" THEN "closed" ELSE sock
    /\ pc' = "return"
    /\ UNCHANGED <<argvLen, remote, caller, calls, lines, delivered, cmds,
                   failedStep, err, stdout, stderr, returned, forecast,
                   exitStatus>>

(* return "\n".join(lines), to __main__ (forecast = ...) or to the caller *)
Return ==
    /\ pc = "return"
    /\ returned' = Append(returned, Join(lines))
    /\ IF caller = "main"
       THEN forecast' = Join(lines) /\ pc' = "main_print"
       ELSE forecast' = forecast /\ pc' = "caller"
    /\ UNCHANGED <<argvLen, remote, caller, calls, lines, delivered, sock,
                   entered, cmds, failedStep, err, stdout, stderr, exitStatus>>

(* The `with` block is left by an exception: __exit__ tries QUIT on the    *)
(* open connection, ignores a transport error of that QUIT, and closes the  *)
(* connection in any case; an error reply to that QUIT replaces the         *)
(* exception that is propagating                                            *)
NoScopedRelease ==
    /\ pc = "unwind"
    /\ entered' = FALSE
    /\ pc' = "except"
    /\ UNCHANGED <<argvLen, remote, caller, calls, lines, delivered, sock, cmds,
                   failedStep, err, stdout, stderr, returned, forecast,
                   exitStatus>>

WithExitOnError ==
    /\ pc = "unwind"
    /\ \E outcome \in {"ok", "transport error", "error reply"} :
          /\ cmds' = IF sock = "open" /\ outcome = "ok"
                     THEN Append(cmds, "QUIT") ELSE cmds
          /\ err' = IF sock = "open" /\ outcome = "error reply"
                    THEN "error reply to QUIT" ELSE err
    /\ sock' = IF sock = "open" THEN "closed" ELSE sock
    /\ entered' = FALSE
    /\ pc' = "except"
    /\ UNCHANGED <<argvLen, remote, caller, calls, lines, delivered, failedStep,
                   stdout, stderr, returned, forecast, exitStatus>>

(* except Exception as e: print(f"FTP connection or operation failed: {e}", *)
(* file=sys.stderr)                                                          *)
ExceptPrintsPartial ==
    /\ pc = "except"
    /\ stderr' = Append(stderr, Failure(err))
    /\ stdout' = Append(stdout, Text(Join(lines)))
    /\ pc' = "sys_exit"
    /\ UNCHANGED <<argvLen, remote, caller, calls, lines, delivered, sock,
                   entered, cmds, failedStep, err, returned, forecast,
                   exitStatus>>

Except ==
    /\ pc = "except"
    /\ stderr' = Append(stderr, Failure(err))
    /\ pc' = "sys_exit"
    /\ UNCHANGED <<argvLen, remote, caller, calls, lines, delivered, sock,
                   entered, cmds, failedStep, err, stdout, returned, forecast,
                   exitStatus>>

(* sys.exit(1) inside the handler: SystemExit is not caught by anything *)
SysExitReturnsEmpty ==
    /\ pc = "sys_exit"
    /\ returned' = Append(returned, <<>>)
    /\ IF caller = "main"
       THEN forecast' = <<>> /\ pc' = "main_print"
       ELSE forecast' = forecast /\ pc' = "caller"
    /\ UNCHANGED <<argvLen, remote, caller, calls, lines, delivered, sock,
                   entered, cmds, failedStep, err, stdout, stderr, exitStatus>>

SysExit ==
    /\ pc = "sys_exit"
    /\ exitStatus' = 1
    /\ pc' = "exited"
    /\ UNCHANGED <<argvLen, remote, caller, calls, lines, delivered, sock,
                   entered, cmds, failedStep, err, stdout, stderr, returned,
                   forecast>>

----------------------------------------------------------------------------
(* The __main__ driver *)

(* if len(sys.argv) < 2 *)
MainCheckArgs ==
    /\ pc = "main"
    /\ pc' = IF ArgMissing(argvLen) THEN "usage" ELSE "main_call"
    /\ UNCHANGED <<argvLen, remote, caller, calls, lines, delivered, sock,
                   entered, cmds, failedStep, err, stdout, stderr, returned,
                   forecast, exitStatus>>

(* print("Usage: ...", file=sys.stderr) *)
MainUsage ==
    /\ pc = "usage"
    /\ stderr' = Append(stderr, Usage)
    /\ pc' = "usage_exit"
    /\ UNCHANGED <<argvLen, remote, caller, calls, lines, delivered, sock,
                   entered, cmds, failedStep, err, stdout, returned, forecast,
                   exitStatus>>

(* sys.exit(1) *)
MainUsageExit ==
    /\ pc = "usage_exit"
    /\ exitStatus' = 1
    /\ pc' = "exited"
    /\ UNCHANGED <<argvLen, remote, caller, calls, lines, delivered, sock,
                   entered, cmds, failedStep, err, stdout, stderr, returned,
                   forecast>>

(* forecast_file = sys.argv[1]; fetch_bom_forecast(forecast_file) is called *)
MainCall ==
    /\ pc = "main_call"
    /\ FetchEnter
    /\ UNCHANGED <<argvLen, remote, caller, stdout, stderr, returned, forecast,
                   exitStatus>>

(* print(forecast) *)
MainPrintNothing ==
    /\ pc = "main_print"
    /\ pc' = "main_end"
    /\ UNCHANGED <<argvLen, remote, caller, calls, lines, delivered, sock,
                   entered, cmds, failedStep, err, stdout, stderr, returned,
                   forecast, exitStatus>>

MainPrint ==
    /\ pc = "main_print"
    /\ stdout' = Append(stdout, Text(forecast))
    /\ pc' = "main_end"
    /\ UNCHANGED <<argvLen, remote, caller, calls, lines, delivered, sock,
                   entered, cmds, failedStep, err, stderr, returned, forecast,
                   exitStatus>>

(* The end of the script: the interpreter exits with status 0 *)
MainEnd ==
    /\ pc = "main_end"
    /\ exitStatus' = 0
    /\ pc' = "exited"
    /\ UNCHANGED <<argvLen, remote, caller, calls, lines, delivered, sock,
                   entered, cmds, failedStep, err, stdout, stderr, returned,
                   forecast>>

(* A caller that imported the module invokes fetch_bom_forecast again with *)
(* the same filename                                                        *)
CallerInvoke ==
    /\ pc = "caller"
    /\ calls < MaxCalls
    /\ FetchEnter
    /\ UNCHANGED <<argvLen, remote, caller, stdout, stderr, returned, forecast,
                   exitStatus>>

----------------------------------------------------------------------------
(* Specifications *)

FetchStep ==
    \/ Connect
    \/ \E e \in ConnectErrors : ConnectFail(e)
    \/ Login
    \/ Cwd
    \/ RetrStart
    \/ HandleLine
    \/ RetrEnd
    \/ Quit
    \/ \E step \in BodySteps : StepFail(step)
    \/ QuitFail
    \/ PrintNotice
    \/ PrintHeader
    \/ PrintText
    \/ WithExit
    \/ Return
    \/ WithExitOnError
    \/ Except
    \/ SysExit

Next ==
    \/ MainCheckArgs
    \/ MainUsage
    \/ MainUsageExit
    \/ MainCall
    \/ MainPrint
    \/ MainEnd
    \/ FetchStep

NextRepeat ==
    \/ CallerInvoke
    \/ FetchStep

Spec == Init /\ [][Next]_vars

SpecRepeat == InitRepeat /\ [][NextRepeat]_vars

----------------------------------------------------------------------------
(* Properties *)

(* s.split("\n"): the pieces of s between newline characters *)
RECURSIVE SplitFrom(_, _, _, _)
SplitFrom(s, i, cur, acc) ==
    IF i > Len(s) THEN Append(acc, cur)
    ELSE IF s[i] = NL THEN SplitFrom(s, i + 1, <<>>, Append(acc, cur))
    ELSE SplitFrom(s, i + 1, Append(cur, s[i]), acc)

SplitNL(s) == SplitFrom(s, 1, <<>>, <<>>)

(* The first min(n, 100) lines of the remote file *)
FirstLines == SubSeq(remote, 1, Min(Len(remote), LineCap))

(* t is the first min(n, 100) lines, separated by single newlines, with    *)
(* nothing before or after                                                  *)
IsFirstLinesText(t) ==
    IF FirstLines = <<>> THEN t = <<>> ELSE SplitNL(t) = FirstLines

FailurePcs == {"unwind", "except", "sys_exit", "exited"}

(* C1: every value fetch_bom_forecast returns is exactly the first          *)
(* min(n, 100) lines of the remote file in received order, separated by     *)
(* single newlines with nothing before or after; it is empty for n = 0 and  *)
(* holds none of the lines 101..n.                                          *)
C1_ReturnsFirstLines ==
    \A i \in 1..Len(returned) :
        /\ IsFirstLinesText(returned[i])
        /\ Len(remote) = 0 => returned[i] = <<>>
        /\ Len(SplitNL(returned[i])) <= LineCap

C1_Witness ==
    /\ returned # <<>>
    /\ Len(remote) > LineCap
    /\ SplitNL(returned[1]) = SubSeq(remote, 1, LineCap)

(* C2: once any step of the session has failed, exactly one failure line    *)
(* is written to standard error, the process exits with status 1, and       *)
(* fetch_bom_forecast returns nothing; this is the same for every kind of   *)
(* failure.                                                                 *)
C2_FailureExits ==
    failedStep # "none" =>
        /\ pc \in FailurePcs
        /\ returned = <<>>
        /\ forecast = <<>>
        /\ pc \in {"unwind", "except"} => stderr = <<>>
        /\ pc \in {"sys_exit", "exited"} => stderr = <<Failure(err)>>
        /\ exitStatus = IF pc = "exited" THEN 1 ELSE -1

C2_Witness ==
    /\ pc = "exited"
    /\ failedStep = "connect"
    /\ err = "timed out"
    /\ stderr = <<Failure("timed out")>>
    /\ exitStatus = 1

(* C3: started with zero command-line arguments, the program prints the     *)
(* usage message to standard error and exits with status 1, and the fetch   *)
(* is never entered: no connection is attempted.                            *)
C3_UsageNoNetwork ==
    argvLen < 2 =>
        /\ pc \in {"main", "usage", "usage_exit", "exited"}
        /\ calls = 0
        /\ sock = "none"
        /\ cmds = <<>>
        /\ stdout = <<>>
        /\ returned = <<>>
        /\ pc \in {"usage_exit", "exited"} => stderr = <<Usage>>
        /\ pc = "exited" => exitStatus = 1

C3_Witness ==
    /\ argvLen = 1
    /\ pc = "exited"
    /\ stderr = <<Usage>>
    /\ exitStatus = 1

(* C4: no partial success: whatever is returned or printed as text is the   *)
(* complete first-<=100-lines text; after a failure nothing is returned     *)
(* and nothing is on standard output, also when lines were already          *)
(* buffered; a run that called the fetch ends either with one returned      *)
(* value and status 0 or with none and status 1.                            *)
C4_NoPartialSuccess ==
    /\ \A i \in 1..Len(stdout) :
          stdout[i].tag = "text" => IsFirstLinesText(stdout[i].body)
    /\ returned # <<>> => IsFirstLinesText(forecast)
    /\ failedStep # "none" => stdout = <<>> /\ returned = <<>>
    /\ (pc = "exited" /\ calls > 0) =>
          \/ failedStep = "none" /\ Len(returned) = 1 /\ exitStatus = 0
          \/ failedStep # "none" /\ returned = <<>> /\ exitStatus = 1

C4_Witness ==
    /\ pc = "exited"
    /\ failedStep = "retr"
    /\ Len(lines) > 0
    /\ Len(lines) < Len(FirstLines)
    /\ stdout = <<>>

(* C5: while nothing has failed the session commands are issued in the      *)
(* order connect, login, cwd, RETR, QUIT; QUIT is only issued when the      *)
(* transfer has delivered the whole file; and the session is already        *)
(* closed when anything is on standard output or has been returned.         *)
C5_SessionOrder ==
    /\ failedStep = "none" =>
          /\ Len(cmds) <= Len(SessionOrder)
          /\ cmds = SubSeq(SessionOrder, 1, Len(cmds))
    /\ (failedStep = "none" /\ Len(cmds) = Len(SessionOrder)) =>
          delivered = Len(remote) /\ sock = "closed"
    /\ (stdout # <<>> \/ returned # <<>>) =>
          cmds = SessionOrder /\ sock = "closed"

C5_Witness ==
    /\ pc = "print_notice"
    /\ stdout = <<>>
    /\ cmds = SessionOrder
    /\ sock = "closed"

(* C6: standard output only ever holds, in this order, the notice, the      *)
(* header, the fetched text and the fetched text again; a successful        *)
(* command-line run ends with exactly these four, nothing on standard       *)
(* error, and exit status 0.                                                *)
C6_SuccessOutput ==
    /\ Len(stdout) <= 4
    /\ \A i \in 1..Len(stdout) :
          stdout[i] = CASE i = 1 -> Notice
                        [] i = 2 -> Header
                        [] i = 3 -> Text(Join(lines))
                        [] OTHER -> Text(returned[1])
    /\ (pc = "exited" /\ calls > 0 /\ failedStep = "none") =>
          /\ Len(stdout) = 4
          /\ stdout[3] = stdout[4]
          /\ stderr = <<>>
          /\ exitStatus = 0
    /\ exitStatus = 0 => pc = "exited" /\ failedStep = "none" /\ Len(stdout) = 4

C6_Witness ==
    /\ pc = "exited"
    /\ exitStatus = 0
    /\ Len(remote) > 1
    /\ Len(stdout) = 4

(* C7: every invocation with the same filename against the unchanged        *)
(* remote file returns the same text and writes the same three entries to   *)
(* standard output as the first one did.                                    *)
C7_Idempotent ==
    /\ \A i \in 1..Len(returned) : returned[i] = returned[1]
    /\ \A j \in 1..Len(stdout) : stdout[j] = stdout[((j - 1) % 3) + 1]

C7_Witness ==
    /\ Len(returned) >= 2
    /\ Len(stdout) >= 6
    /\ Len(remote) > 0
    /\ Len(remote) < LineCap

(* C8: the buffer always holds at most 100 entries and equals the first     *)
(* min(k, 100) of the k lines delivered so far; a line delivered to a full  *)
(* buffer leaves it unchanged, raises nothing and leaves the transfer       *)
(* running, which only ends at the end of the file.                         *)
C8_BufferState ==
    /\ Len(lines) <= LineCap
    /\ delivered <= Len(remote)
    /\ lines = SubSeq(remote, 1, Min(delivered, LineCap))
    /\ (pc = "xfer" /\ delivered < Len(remote)) => ENABLED HandleLine

C8_FullBufferStep ==
    /\ (pc = "xfer" /\ Len(lines) = LineCap /\ delivered' = delivered + 1) =>
          /\ lines' = lines
          /\ pc' = "xfer"
          /\ failedStep' = "none"
    /\ (pc = "xfer" /\ pc' = "quit") => delivered = Len(remote)

C8_BufferCapped == []C8_BufferState /\ [][C8_FullBufferStep]_vars

C8_Witness ==
    /\ pc = "quit"
    /\ failedStep = "none"
    /\ delivered > LineCap
    /\ delivered = Len(remote)
    /\ Len(lines) = LineCap

C10_QuitFailure ==
    failedStep = "quit" =>
        /\ delivered = Len(remote)
        /\ lines = FirstLines
        /\ pc \in FailurePcs
        /\ stdout = <<>>
        /\ returned = <<>>
        /\ pc \in {"sys_exit", "exited"} =>
              stderr = <<Failure(err)>>
        /\ pc = "exited" => exitStatus = 1

C10_Witness ==
    /\ failedStep = "quit"
    /\ pc = "exited"
    /\ Len(lines) > 0
    /\ exitStatus = 1

====
